---- MODULE Spec2Model ----
(***************************************************************************)
(* A model of src/main.py: the flat-file table store (class Database) and  *)
(* the connection handler of the request router (class Server).            *)
(*                                                                         *)
(* Representation of Python data:                                          *)
(*   - a str is the sequence of its "/"-separated segments, so "k" is      *)
(*     <<"k">> and "../index" is <<"..", "index">>; os.path.join is then   *)
(*     concatenation of segment sequences;                                 *)
(*   - a Python value is a tagged tuple: <<"null">> (None), <<"int", n>>,  *)
(*     <<"str", s>>, <<"list", items>>, <<"dict", pairs>> where pairs is   *)
(*     the insertion-ordered sequence of <<key, value>> with unique keys;  *)
(*   - a JSON text is the sequence of its tokens.                          *)
(***************************************************************************)
EXTENDS Integers, Sequences, FiniteSets, TLC

VARIABLES
    dirs,      \* disk: the directories under the root, as normalised paths
    files,     \* disk: normalised path -> content (a JSON text) of each file
    tables,    \* Database.tables: table name -> insertion-ordered <<key, file_path>> pairs
    lock,      \* Database.lock: the thread holding it, 0 when free
    pc,        \* per thread: the position inside the operation it runs
    loc,       \* per thread: the arguments and locals of the operation it runs
    ret,       \* per thread: what its last operation returned or raised
    budget,    \* calls the clients may still issue
    removals,  \* out-of-band removals of value files still to come
    restarts,  \* process restarts still to come
    routes,    \* Server.routes: the registered (method, pattern, handler), in order
    conn       \* the connection being handled by Server.__handle_client

srv == <<routes, conn>>
dbvars == <<dirs, files, tables, lock, pc, loc, ret, budget, removals, restarts>>
vars == <<dbvars, srv>>

----------------------------------------------------------------------------
(* Bounds of the model.                                                    *)

MaxOps == 3
MaxRemovals == 1
MaxRestarts == 1
MaxFaultOps == 2

Threads == {1, 2}

----------------------------------------------------------------------------
(* Python dict: insertion-ordered pairs with unique keys.                  *)

DictHas(d, k) == \E i \in 1..Len(d) : d[i][1] = k

\* d[k]; only used where DictHas(d, k)
DictGet(d, k) == d[CHOOSE i \in 1..Len(d) : d[i][1] = k][2]

\* d[k] = v: an existing key keeps its position, a new key goes last
DictSet(d, k, v) ==
    IF DictHas(d, k)
    THEN [i \in 1..Len(d) |-> IF d[i][1] = k THEN <<k, v>> ELSE d[i]]
    ELSE Append(d, <<k, v>>)

\* the dict left by d.pop(k, None)
DictPop(d, k) == SelectSeq(d, LAMBDA p : p[1] # k)

----------------------------------------------------------------------------
(* json.dump and json.load, on token sequences.                            *)

None == <<"null">>
Num(n) == <<"int", n>>
Str(s) == <<"str", s>>
List(items) == <<"list", items>>
Dict(pairs) == <<"dict", pairs>>

RECURSIVE Dumps(_)
RECURSIVE DumpItems(_, _)
RECURSIVE DumpMembers(_, _)

\* the items of a list from position i on, separated by ","
DumpItems(items, i) ==
    IF i > Len(items) THEN <<>>
    ELSE (IF i > 1 THEN << <<",">> >> ELSE <<>>) \o Dumps(items[i]) \o DumpItems(items, i + 1)

\* the members of a dict from position i on, separated by ","
DumpMembers(pairs, i) ==
    IF i > Len(pairs) THEN <<>>
    ELSE (IF i > 1 THEN << <<",">> >> ELSE <<>>)
         \o << Str(pairs[i][1]), <<":">> >> \o Dumps(pairs[i][2])
         \o DumpMembers(pairs, i + 1)

\* json.dump(v, f): the text written to f
Dumps(v) ==
    IF v[1] = "list" THEN << <<"[">> >> \o DumpItems(v[2], 1) \o << <<"]">> >>
    ELSE IF v[1] = "dict" THEN << <<"{">> >> \o DumpMembers(v[2], 1) \o << <<"}">> >>
    ELSE <<v>>

ParseFail == [ok |-> FALSE, val |-> None, next |-> 0]
ParseOk(v, n) == [ok |-> TRUE, val |-> v, next |-> n]

RECURSIVE ParseValue(_, _)
RECURSIVE ParseItems(_, _, _)
RECURSIVE ParseMembers(_, _, _)

\* the elements of an array, from the token after "[" or ","
ParseItems(toks, i, acc) ==
    IF i > Len(toks) THEN ParseFail
    ELSE IF toks[i][1] = "]" /\ acc = <<>> THEN ParseOk(List(acc), i + 1)
    ELSE LET r == ParseValue(toks, i) IN
         IF ~r.ok \/ r.next > Len(toks) THEN ParseFail
         ELSE IF toks[r.next][1] = "," THEN ParseItems(toks, r.next + 1, Append(acc, r.val))
         ELSE IF toks[r.next][1] = "]" THEN ParseOk(List(Append(acc, r.val)), r.next + 1)
         ELSE ParseFail

\* the members of an object, from the token after "{" or ","; a repeated
\* name keeps its last value
ParseMembers(toks, i, acc) ==
    IF i > Len(toks) THEN ParseFail
    ELSE IF toks[i][1] = "}" /\ acc = <<>> THEN ParseOk(Dict(acc), i + 1)
    ELSE IF toks[i][1] # "str" \/ i + 1 > Len(toks) THEN ParseFail
    ELSE IF toks[i + 1][1] # ":" THEN ParseFail
    ELSE LET r == ParseValue(toks, i + 2) IN
         IF ~r.ok \/ r.next > Len(toks) THEN ParseFail
         ELSE LET acc2 == DictSet(acc, toks[i][2], r.val) IN
              IF toks[r.next][1] = "," THEN ParseMembers(toks, r.next + 1, acc2)
              ELSE IF toks[r.next][1] = "}" THEN ParseOk(Dict(acc2), r.next + 1)
              ELSE ParseFail

ParseValue(toks, i) ==
    IF i > Len(toks) THEN ParseFail
    ELSE IF toks[i][1] \in {"null", "int", "str"} THEN ParseOk(toks[i], i + 1)
    ELSE IF toks[i][1] = "[" THEN ParseItems(toks, i + 1, <<>>)
    ELSE IF toks[i][1] = "{" THEN ParseMembers(toks, i + 1, <<>>)
    ELSE ParseFail

Returned(v) == <<"return", v>>
Raised(e) == <<"raise", e>>

\* json.load(f) on a file holding text: the value, or JSONDecodeError when
\* the text is not one complete JSON document
Loads(text) ==
    LET r == ParseValue(text, 1) IN
    IF r.ok /\ r.next = Len(text) + 1 THEN Returned(r.val) ELSE Raised("JSONDecodeError")

----------------------------------------------------------------------------
(* The disk under Database.base_path.  A path is the sequence of its       *)
(* components relative to the root; the kernel resolves ".." while it      *)
(* walks the path, and every directory it walks through must exist.        *)

Front(s) == SubSeq(s, 1, Len(s) - 1)
Last(s) == s[Len(s)]

IsDir(p) == p = <<>> \/ p \in dirs
IsFile(p) == p \in DOMAIN files

WalkFail == [ok |-> FALSE, at |-> <<>>]

RECURSIVE Walk(_, _, _)
\* resolve path from component i on, standing in directory cur
Walk(path, i, cur) ==
    IF i > Len(path) THEN [ok |-> TRUE, at |-> cur]
    ELSE IF ~IsDir(cur) THEN WalkFail
    ELSE IF path[i] = ".." THEN
        (IF cur = <<>> THEN WalkFail ELSE Walk(path, i + 1, Front(cur)))
    ELSE Walk(path, i + 1, Append(cur, path[i]))

Resolve(path) == Walk(path, 1, <<>>)

\* os.path.exists(path)
Exists(path) == LET r == Resolve(path) IN r.ok /\ (IsFile(r.at) \/ IsDir(r.at))

\* open(path, 'w') succeeds: the parent exists and path is no directory
CanOpenW(path) == LET r == Resolve(path) IN r.ok /\ ~IsDir(r.at)

\* open(path, 'r') succeeds
CanOpenR(path) == LET r == Resolve(path) IN r.ok /\ IsFile(r.at)

\* the files after open(path, 'a'): created if missing, its content kept
OpenedForAppend(path) ==
    LET at == Resolve(path).at IN
    [p \in DOMAIN files \cup {at} |-> IF p \in DOMAIN files THEN files[p] ELSE <<>>]

\* the files after open(path, 'w'): created or truncated, nothing written yet
Truncated(path) ==
    LET at == Resolve(path).at IN
    [p \in DOMAIN files \cup {at} |-> IF p = at THEN <<>> ELSE files[p]]

\* the files after text has been written to the file just opened at path,
\* behind what it holds, and flushed
Written(path, text) ==
    LET at == Resolve(path).at IN
    [p \in DOMAIN files |-> IF p = at THEN files[p] \o text ELSE files[p]]

\* the files after os.remove(path)
Removed(path) ==
    LET at == Resolve(path).at IN [p \in DOMAIN files \ {at} |-> files[p]]

Prefixes(path) == {SubSeq(path, 1, n) : n \in 1..Len(path)}

\* os.makedirs(path, exist_ok=True) succeeds: no component of path is a file
CanMakedirs(path) == \A p \in Prefixes(path) : ~IsFile(p)

\* the directories after os.makedirs(path, exist_ok=True)
Makedirs(path) == dirs \cup Prefixes(path)

----------------------------------------------------------------------------
(* Database: paths and the in-memory index.                                *)

\* f"{key}.json" as path components: the suffix goes on the last segment
KeyFile(key) == Append(Front(key), Last(key) \o ".json")

\* Database.set: os.path.join(self.base_path, table, 'keys')
KeysPath(table) == table \o <<"keys">>

\* Database.set: os.path.join(keys_path, f"{key}.json")
FilePath(table, key) == KeysPath(table) \o KeyFile(key)

\* Database.__save_index: os.path.join(self.base_path, table, 'index.json')
IndexFile(table) == table \o <<"index.json">>

EmptyIndex == Dict(<<>>)

Known(table) == table \in DOMAIN tables

\* self.tables[table][key] = file_path, after the table entry was created if new
Indexed(table, key, file_path) ==
    LET old == IF Known(table) THEN tables[table] ELSE EmptyIndex IN
    [t \in DOMAIN tables \cup {table} |->
        IF t = table THEN Dict(DictSet(old[2], key, Str(file_path))) ELSE tables[t]]

\* self.tables[table].get(key) and self.tables[table].pop(key, None): the value found
Lookup(table, key) ==
    IF DictHas(tables[table][2], key) THEN DictGet(tables[table][2], key) ELSE None

\* the tables after self.tables[table].pop(key, None)
Popped(table, key) ==
    [tables EXCEPT ![table] = Dict(DictPop(tables[table][2], key))]

\* Database.all_keys(table)
AllKeysOf(table) ==
    IF Known(table) THEN List([i \in 1..Len(tables[table][2]) |-> Str(tables[table][2][i][1])])
    ELSE List(<<>>)

\* Python truthiness of a file_path: None and "" are falsy
Truthy(v) == v # None /\ v # Str(<<>>) /\ v # Str(<<"">>)

----------------------------------------------------------------------------
(* Database.__init__ and Database.__load_tables, on a disk (d, f).         *)

\* os.listdir(self.base_path) filtered by os.path.isdir
TableDirs(d) == {p \in d : Len(p) = 1}

\* json.load of every index.json found succeeds, so the constructor returns
Loadable(d, f) ==
    \A t \in TableDirs(d) :
        IndexFile(t) \in DOMAIN f => Loads(f[IndexFile(t)])[1] = "return"

\* a loader that forgets the persisted index: every table starts empty
LoadTablesForgetful(d, f) == [t \in TableDirs(d) |-> EmptyIndex]

\* self.tables after __load_tables
LoadTables(d, f) ==
    [t \in TableDirs(d) |->
        IF IndexFile(t) \in DOMAIN f THEN Loads(f[IndexFile(t)])[2] ELSE EmptyIndex]

\* the files after __load_tables: a table without index.json gets an empty one
LoadFiles(d, f) ==
    LET fresh == {IndexFile(t) : t \in TableDirs(d)} \ DOMAIN f IN
    [p \in DOMAIN f \cup fresh |-> IF p \in fresh THEN Dumps(EmptyIndex) ELSE f[p]]

----------------------------------------------------------------------------
(* The clients: what they pass to the store.                               *)

Tables == {<<"t">>, <<"u">>}
Keys == {<<"k">>, <<"..", "index">>}
Values == {Num(1), Dict(<< <<<<"a">>, List(<<None, Num(2)>>)>> >>)}

\* what the root holds before the store is constructed: the directory of a
\* table "u" without an index; table "t" is unknown until it is first set
InitialDirs == {{<<"u">>}}

NoLoc == [op |-> "none", table |-> <<>>, key |-> <<>>, value |-> None, file_path |-> None]
Pending == <<"pending">>
NoCall == [op |-> "none", body |-> "", status_code |-> 0, content_type |-> "",
           file_path |-> <<>>, data |-> None]

NoConn == [pc |-> "none", data |-> <<>>, request_line |-> <<>>, headers |-> <<>>,
           body |-> <<>>, method |-> <<>>, path |-> <<>>, out |-> <<>>, closes |-> 0,
           handler |-> 0, req |-> <<"none">>, call |-> NoCall, result |-> Pending]

Resting(th) == pc[th] \in {"idle", "done"}

\* the client threads are interchangeable: a new call is issued on the first
\* thread that is free to take one
Free(th) == Resting(th) /\ \A o \in Threads : o < th => ~Resting(o)

InitStore(n) ==
    /\ \E pre \in InitialDirs :
        /\ dirs = pre
        /\ files = LoadFiles(pre, <<>>)
        /\ tables = LoadTables(pre, <<>>)
    /\ lock = 0
    /\ pc = [th \in Threads |-> "idle"]
    /\ loc = [th \in Threads |-> NoLoc]
    /\ ret = [th \in Threads |-> Pending]
    /\ budget = n
    /\ removals = MaxRemovals
    /\ restarts = MaxRestarts
    /\ routes = <<>>
    /\ conn = NoConn

Init == InitStore(MaxOps)

\* a client thread calls set, get or delete: it goes for the lock
Call(th, op, table, key, value) ==
    /\ Free(th)
    /\ budget > 0
    /\ budget' = budget - 1
    /\ pc' = [pc EXCEPT ![th] = "acquire"]
    /\ loc' = [loc EXCEPT ![th] = [op |-> op, table |-> table, key |-> key,
                                   value |-> value, file_path |-> None]]
    /\ ret' = [ret EXCEPT ![th] = Pending]
    /\ UNCHANGED <<dirs, files, tables, lock, removals, restarts, srv>>

CallSet(th) == \E t \in Tables, k \in Keys, v \in Values : Call(th, "set", t, k, v)
CallGet(th) == \E t \in Tables, k \in Keys : Call(th, "get", t, k, None)
CallDelete(th) == \E t \in Tables, k \in Keys : Call(th, "delete", t, k, None)

\* the first statement inside the critical section of each operation
Entry(op) == IF op = "set" THEN "set_makedirs"
             ELSE IF op = "get" THEN "get_lookup" ELSE "del_pop"

\* an entry that does not wait for the lock to be free
AcquireNoExclusion(th) ==
    /\ pc[th] = "acquire"
    /\ lock' = th
    /\ pc' = [pc EXCEPT ![th] = Entry(loc[th].op)]
    /\ UNCHANGED <<dirs, files, tables, loc, ret, budget, removals, restarts, srv>>

\* with self.lock: (entering)
Acquire(th) ==
    /\ pc[th] = "acquire"
    /\ lock = 0
    /\ lock' = th
    /\ pc' = [pc EXCEPT ![th] = Entry(loc[th].op)]
    /\ UNCHANGED <<dirs, files, tables, loc, ret, budget, removals, restarts, srv>>

\* an exit that releases the lock only when the body completed normally
\* (acquire() ... release() without try/finally)
ReleaseUnlessRaised(th) ==
    /\ pc[th] = "release"
    /\ lock' = IF ret[th][1] = "raise" THEN lock ELSE 0
    /\ pc' = [pc EXCEPT ![th] = "done"]
    /\ UNCHANGED <<dirs, files, tables, loc, ret, budget, removals, restarts, srv>>

\* with self.lock: (leaving, normally or by an exception) and the return
Release(th) ==
    /\ pc[th] = "release"
    /\ lock' = 0
    /\ pc' = [pc EXCEPT ![th] = "done"]
    /\ UNCHANGED <<dirs, files, tables, loc, ret, budget, removals, restarts, srv>>

\* thread th goes to position p, nothing else of the threads changes
Goto(th, p) == pc' = [pc EXCEPT ![th] = p] /\ UNCHANGED <<loc, ret>>

\* thread th leaves the critical section with result r
Finish(th, r) ==
    /\ pc' = [pc EXCEPT ![th] = "release"]
    /\ ret' = [ret EXCEPT ![th] = r]
    /\ UNCHANGED loc

----------------------------------------------------------------------------
(* Database.set, statement by statement.                                   *)

\* os.makedirs(keys_path, exist_ok=True)
SetMakedirs(th) ==
    /\ pc[th] = "set_makedirs"
    /\ IF CanMakedirs(KeysPath(loc[th].table))
       THEN /\ dirs' = Makedirs(KeysPath(loc[th].table))
            /\ pc' = [pc EXCEPT ![th] = "set_open"]
            /\ loc' = [loc EXCEPT ![th].file_path = Str(FilePath(loc[th].table, loc[th].key))]
            /\ UNCHANGED ret
       ELSE /\ Finish(th, Raised("FileExistsError"))
            /\ UNCHANGED dirs
    /\ UNCHANGED <<files, tables, lock, budget, removals, restarts, srv>>

\* with open(file_path, 'w') as f:
SetOpen(th) ==
    /\ pc[th] = "set_open"
    /\ IF CanOpenW(loc[th].file_path[2])
       THEN /\ files' = Truncated(loc[th].file_path[2])
            /\ Goto(th, "set_dump")
       ELSE /\ Finish(th, Raised("FileNotFoundError"))
            /\ UNCHANGED files
    /\ UNCHANGED <<dirs, tables, lock, budget, removals, restarts, srv>>

\* a dump left in the buffer of a file that is not closed before the key is indexed
SetDumpUnflushed(th) ==
    /\ pc[th] = "set_dump"
    /\ Goto(th, "set_index")
    /\ UNCHANGED <<dirs, files, tables, lock, budget, removals, restarts, srv>>

\* json.dump(value, f), and the close that flushes it
SetDump(th) ==
    /\ pc[th] = "set_dump"
    /\ files' = Written(loc[th].file_path[2], Dumps(loc[th].value))
    /\ Goto(th, "set_index")
    /\ UNCHANGED <<dirs, tables, lock, budget, removals, restarts, srv>>

\* if table not in self.tables: ...; self.tables[table][key] = file_path
SetIndex(th) ==
    /\ pc[th] = "set_index"
    /\ tables' = Indexed(loc[th].table, loc[th].key, loc[th].file_path[2])
    /\ Goto(th, "save_open")
    /\ UNCHANGED <<dirs, files, lock, budget, removals, restarts, srv>>

----------------------------------------------------------------------------
(* Database.__save_index, called last by set and by delete.                *)

\* with open(index_file, 'w') as f:
SaveOpen(th) ==
    /\ pc[th] = "save_open"
    /\ IF CanOpenW(IndexFile(loc[th].table))
       THEN /\ files' = Truncated(IndexFile(loc[th].table))
            /\ Goto(th, "save_dump")
       ELSE /\ Finish(th, Raised("FileNotFoundError"))
            /\ UNCHANGED files
    /\ UNCHANGED <<dirs, tables, lock, budget, removals, restarts, srv>>

\* json.dump(self.tables[table], f); the caller then returns None
SaveDump(th) ==
    /\ pc[th] = "save_dump"
    /\ files' = Written(IndexFile(loc[th].table), Dumps(tables[loc[th].table]))
    /\ Finish(th, Returned(None))
    /\ UNCHANGED <<dirs, tables, lock, budget, removals, restarts, srv>>

----------------------------------------------------------------------------
(* Database.get.                                                           *)

\* a lookup that trusts the index and does not test os.path.exists
GetLookupTrusting(th) ==
    /\ pc[th] = "get_lookup"
    /\ IF ~Known(loc[th].table)
       THEN Finish(th, Returned(None))
       ELSE LET file_path == Lookup(loc[th].table, loc[th].key) IN
            IF ~Truthy(file_path)
            THEN /\ pc' = [pc EXCEPT ![th] = "release"]
                 /\ ret' = [ret EXCEPT ![th] = Returned(None)]
                 /\ loc' = [loc EXCEPT ![th].file_path = file_path]
            ELSE /\ pc' = [pc EXCEPT ![th] = "get_load"]
                 /\ loc' = [loc EXCEPT ![th].file_path = file_path]
                 /\ UNCHANGED ret
    /\ UNCHANGED <<dirs, files, tables, lock, budget, removals, restarts, srv>>

\* if table not in self.tables: return None
\* file_path = self.tables[table].get(key)
\* if not file_path or not os.path.exists(file_path): return None
GetLookup(th) ==
    /\ pc[th] = "get_lookup"
    /\ IF ~Known(loc[th].table)
       THEN Finish(th, Returned(None))
       ELSE LET file_path == Lookup(loc[th].table, loc[th].key) IN
            IF ~Truthy(file_path) \/ ~Exists(file_path[2])
            THEN /\ pc' = [pc EXCEPT ![th] = "release"]
                 /\ ret' = [ret EXCEPT ![th] = Returned(None)]
                 /\ loc' = [loc EXCEPT ![th].file_path = file_path]
            ELSE /\ pc' = [pc EXCEPT ![th] = "get_load"]
                 /\ loc' = [loc EXCEPT ![th].file_path = file_path]
                 /\ UNCHANGED ret
    /\ UNCHANGED <<dirs, files, tables, lock, budget, removals, restarts, srv>>

\* with open(file_path, 'r') as f: return json.load(f)
GetLoad(th) ==
    /\ pc[th] = "get_load"
    /\ IF CanOpenR(loc[th].file_path[2])
       THEN Finish(th, Loads(files[Resolve(loc[th].file_path[2]).at]))
       ELSE Finish(th, Raised("FileNotFoundError"))
    /\ UNCHANGED <<dirs, files, tables, lock, budget, removals, restarts, srv>>

----------------------------------------------------------------------------
(* Database.delete.                                                        *)

\* if table in self.tables: file_path = self.tables[table].pop(key, None)
DelPop(th) ==
    /\ pc[th] = "del_pop"
    /\ IF Known(loc[th].table)
       THEN /\ loc' = [loc EXCEPT ![th].file_path = Lookup(loc[th].table, loc[th].key)]
            /\ tables' = Popped(loc[th].table, loc[th].key)
            /\ pc' = [pc EXCEPT ![th] = "del_exists"]
            /\ UNCHANGED ret
       ELSE /\ Finish(th, Returned(None))
            /\ UNCHANGED tables
    /\ UNCHANGED <<dirs, files, lock, budget, removals, restarts, srv>>

\* a delete that persists the index whether or not a file was removed
DelExistsAlwaysSaves(th) ==
    /\ pc[th] = "del_exists"
    /\ IF Truthy(loc[th].file_path) /\ Exists(loc[th].file_path[2])
       THEN Goto(th, "del_remove")
       ELSE Goto(th, "save_open")
    /\ UNCHANGED <<dirs, files, tables, lock, budget, removals, restarts, srv>>

\* if file_path and os.path.exists(file_path):
DelExists(th) ==
    /\ pc[th] = "del_exists"
    /\ IF Truthy(loc[th].file_path) /\ Exists(loc[th].file_path[2])
       THEN Goto(th, "del_remove")
       ELSE Finish(th, Returned(None))
    /\ UNCHANGED <<dirs, files, tables, lock, budget, removals, restarts, srv>>

\* os.remove(file_path); self.__save_index(table) comes next
DelRemove(th) ==
    /\ pc[th] = "del_remove"
    /\ IF CanOpenR(loc[th].file_path[2])
       THEN /\ files' = Removed(loc[th].file_path[2])
            /\ Goto(th, "save_open")
       ELSE /\ Finish(th, Raised("FileNotFoundError"))
            /\ UNCHANGED files
    /\ UNCHANGED <<dirs, tables, lock, budget, removals, restarts, srv>>

----------------------------------------------------------------------------
(* Database.all_keys: no lock is taken.                                    *)

AllKeys(th) ==
    /\ Free(th)
    /\ budget > 0
    /\ budget' = budget - 1
    /\ \E t \in Tables :
        /\ loc' = [loc EXCEPT ![th] = [NoLoc EXCEPT !.op = "all_keys", !.table = t]]
        /\ ret' = [ret EXCEPT ![th] = Returned(AllKeysOf(t))]
    /\ pc' = [pc EXCEPT ![th] = "done"]
    /\ UNCHANGED <<dirs, files, tables, lock, removals, restarts, srv>>

----------------------------------------------------------------------------
(* The environment.                                                        *)

\* the value files: what lies under the keys directory of a table
ValueFiles == {p \in DOMAIN files : \E t \in Tables :
                  Len(p) > Len(KeysPath(t)) /\ SubSeq(p, 1, Len(KeysPath(t))) = KeysPath(t)}

\* a value file is removed from the disk behind the store's back, between calls
RemoveOutOfBand ==
    /\ removals > 0
    /\ lock = 0
    /\ \E p \in ValueFiles : files' = [q \in DOMAIN files \ {p} |-> files[q]]
    /\ removals' = removals - 1
    /\ UNCHANGED <<dirs, tables, lock, pc, loc, ret, budget, restarts, srv>>

\* the process ends between calls and a new one constructs Database on the same root
Restart ==
    /\ restarts > 0
    /\ lock = 0
    /\ \A th \in Threads : Resting(th)
    /\ Loadable(dirs, files)
    /\ restarts' = restarts - 1
    /\ tables' = LoadTables(dirs, files)
    /\ files' = LoadFiles(dirs, files)
    /\ pc' = [th \in Threads |-> "idle"]
    /\ loc' = [th \in Threads |-> NoLoc]
    /\ ret' = [th \in Threads |-> Pending]
    /\ UNCHANGED <<dirs, lock, budget, removals, srv>>

Step(th) ==
    \/ Acquire(th)
    \/ SetMakedirs(th)
    \/ SetOpen(th)
    \/ SetDump(th)
    \/ SetIndex(th)
    \/ SaveOpen(th)
    \/ SaveDump(th)
    \/ GetLookup(th)
    \/ GetLoad(th)
    \/ DelPop(th)
    \/ DelExists(th)
    \/ DelRemove(th)
    \/ Release(th)

Next ==
    \/ \E th \in Threads : CallSet(th)
    \/ \E th \in Threads : CallGet(th)
    \/ \E th \in Threads : CallDelete(th)
    \/ \E th \in Threads : AllKeys(th)
    \/ \E th \in Threads : Step(th)
    \/ RemoveOutOfBand
    \/ Restart

Spec == Init /\ [][Next]_vars

----------------------------------------------------------------------------
(* Two calls issued at the same time.  The store is either as constructed  *)
(* or already holds a value under RaceKey of RaceTable; thread 1 calls set *)
(* and thread 2 any of set, get and delete; only the threads move.         *)

RaceTable == <<"t">>
RaceKey == <<"k">>
RaceOld == List(<<Num(0)>>)

\* the store after set(RaceTable, RaceKey, RaceOld) on the initial root
RaceIndex == Dict(<< <<RaceKey, Str(FilePath(RaceTable, RaceKey))>> >>)

InitRace ==
    /\ \/ /\ dirs = {<<"u">>}
          /\ files = LoadFiles({<<"u">>}, <<>>)
          /\ tables = LoadTables({<<"u">>}, <<>>)
       \/ /\ dirs = {<<"u">>, RaceTable, KeysPath(RaceTable)}
          /\ files = (IndexFile(<<"u">>) :> Dumps(EmptyIndex))
                     @@ (IndexFile(RaceTable) :> Dumps(RaceIndex))
                     @@ (FilePath(RaceTable, RaceKey) :> Dumps(RaceOld))
          /\ tables = (<<"u">> :> EmptyIndex) @@ (RaceTable :> RaceIndex)
    /\ lock = 0
    /\ pc = [th \in Threads |-> "acquire"]
    /\ \E t1 \in Tables, k1 \in Keys, v1 \in Values,
          t2 \in Tables, k2 \in Keys, v2 \in Values, op2 \in {"set", "get", "delete"} :
          loc = [th \in Threads |->
                    IF th = 1
                    THEN [op |-> "set", table |-> t1, key |-> k1, value |-> v1,
                          file_path |-> None]
                    ELSE [op |-> op2, table |-> t2, key |-> k2,
                          value |-> IF op2 = "set" THEN v2 ELSE None, file_path |-> None]]
    /\ ret = [th \in Threads |-> Pending]
    /\ budget = 0
    /\ removals = 0
    /\ restarts = 0
    /\ routes = <<>>
    /\ conn = NoConn

NextRace == \E th \in Threads : Step(th)

SpecRace == InitRace /\ [][NextRace]_vars

----------------------------------------------------------------------------
(* Disk I/O faults.  Any statement of a critical section that touches the  *)
(* disk may fail with OSError; a failing write leaves a strict prefix of   *)
(* the text in the file (nothing, or all but the last token: no strict     *)
(* prefix is a complete document), a failing makedirs a prefix of the      *)
(* directories.                                                            *)

FaultPoints == {"set_makedirs", "set_open", "set_dump", "save_open", "save_dump",
                "get_load", "del_remove"}

Fault(th) ==
    /\ pc[th] \in FaultPoints
    /\ IF pc[th] = "set_dump"
       THEN /\ \E n \in {0, Len(Dumps(loc[th].value)) - 1} :
                 files' = Written(loc[th].file_path[2], SubSeq(Dumps(loc[th].value), 1, n))
            /\ UNCHANGED dirs
       ELSE IF pc[th] = "save_dump"
       THEN /\ \E n \in {0, Len(Dumps(tables[loc[th].table])) - 1} :
                 files' = Written(IndexFile(loc[th].table),
                                  SubSeq(Dumps(tables[loc[th].table]), 1, n))
            /\ UNCHANGED dirs
       ELSE IF pc[th] = "set_makedirs"
       THEN /\ \E n \in 0..(Len(KeysPath(loc[th].table)) - 1) :
                 dirs' = dirs \cup Prefixes(SubSeq(KeysPath(loc[th].table), 1, n))
            /\ UNCHANGED files
       ELSE UNCHANGED <<dirs, files>>
    /\ Finish(th, Raised("OSError"))
    /\ UNCHANGED <<tables, lock, budget, removals, restarts, srv>>

InitFault == InitStore(MaxFaultOps)

\* the calls made while the disk is faulty: any operation, on one table
FaultTable == <<"t">>

CallFaulty(th) ==
    \E op \in {"set", "get", "delete"}, k \in Keys, v \in Values :
        Call(th, op, FaultTable, k, IF op = "set" THEN v ELSE None)

NextFault ==
    \/ \E th \in Threads : CallFaulty(th)
    \/ \E th \in Threads : Step(th)
    \/ \E th \in Threads : Fault(th)

\* a thread that can take its next statement, or the free lock, eventually does
SpecFault == InitFault /\ [][NextFault]_vars /\ \A th \in Threads : WF_vars(Step(th))

----------------------------------------------------------------------------
(* The server.  A text is a sequence of atoms: Sp (a space), Colon, Slash, *)
(* the brackets and braces, and words W(x), each standing for a non-empty  *)
(* run of other characters.  The bytes read from a connection are kept as  *)
(* the lines that splitting their text on CRLF gives; the empty read is    *)
(* the one empty line.                                                     *)

Sp == <<" ">>
Colon == <<":">>
Slash == <<"/">>
Crlf == <<"crlf">>
LBracket == <<"[">>
RBracket == <<"]">>
LBrace == <<"{">>
RBrace == <<"}">>
Dot == <<".">>
W(x) == <<"w", x>>

NoData == << <<>> >>

RECURSIVE SplitOn(_, _)
\* text.split(sep), sep one atom
SplitOn(text, sep) ==
    IF \E i \in 1..Len(text) : text[i] = sep
    THEN LET i == CHOOSE j \in 1..Len(text) :
                      text[j] = sep /\ \A h \in 1..(j - 1) : text[h] # sep
         IN <<SubSeq(text, 1, i - 1)>> \o SplitOn(SubSeq(text, i + 1, Len(text)), sep)
    ELSE <<text>>

RECURSIVE JoinCrlf(_)
\* "\r\n".join(lines)
JoinCrlf(lines) ==
    IF lines = <<>> THEN <<>>
    ELSE IF Len(lines) = 1 THEN lines[1]
    ELSE lines[1] \o <<Crlf>> \o JoinCrlf(Tail(lines))

\* ": " in line
HasColonSp(line) == \E i \in 1..(Len(line) - 1) : line[i] = Colon /\ line[i + 1] = Sp

\* line.rsplit(": ", 1): the split at the last ": "
SplitHeaderAtLast(line) ==
    LET i == CHOOSE j \in 1..(Len(line) - 1) :
                 /\ line[j] = Colon /\ line[j + 1] = Sp
                 /\ \A h \in (j + 1)..(Len(line) - 1) : ~(line[h] = Colon /\ line[h + 1] = Sp)
    IN <<SubSeq(line, 1, i - 1), SubSeq(line, i + 2, Len(line))>>

\* line.split(": ", 1), where HasColonSp(line)
SplitHeader(line) ==
    LET i == CHOOSE j \in 1..(Len(line) - 1) :
                 /\ line[j] = Colon /\ line[j + 1] = Sp
                 /\ \A h \in 1..(j - 1) : ~(line[h] = Colon /\ line[h + 1] = Sp)
    IN <<SubSeq(line, 1, i - 1), SubSeq(line, i + 2, Len(line))>>

RECURSIVE HeaderEnd(_, _)
\* Server.__parse_request: where the loop over the header lines stops
HeaderEnd(lines, i) ==
    IF i <= Len(lines) /\ lines[i] # <<>> THEN HeaderEnd(lines, i + 1) ELSE i

RECURSIVE Headers(_, _, _)
\* Server.__parse_request: the headers of lines i..last
Headers(lines, i, last) ==
    IF i > last THEN <<>>
    ELSE LET rest == Headers(lines, i + 1, last) IN
         IF HasColonSp(lines[i]) /\ ~DictHas(rest, SplitHeader(lines[i])[1])
         THEN <<SplitHeader(lines[i])>> \o rest
         ELSE IF HasColonSp(lines[i])
         THEN <<<<SplitHeader(lines[i])[1], DictGet(rest, SplitHeader(lines[i])[1])>>>>
              \o DictPop(rest, SplitHeader(lines[i])[1])
         ELSE rest

\* Server.__parse_request(request_text), on the lines of request_text
ParseRequest(lines) ==
    LET i == HeaderEnd(lines, 2) IN
    [request_line |-> lines[1],
     headers |-> Headers(lines, 2, i - 1),
     body |-> JoinCrlf(SubSeq(lines, i + 1, Len(lines)))]

\* the JSON tokens of a text: json.loads skips the whitespace
JsonTokens(text) == SelectSeq(text, LAMBDA a : a # Sp /\ a # Crlf)

\* Request(method, path, headers, body): the object, or what __init__ raises.
\* bodyJson is not among __slots__, so assigning it raises AttributeError
\* once json.loads has returned.
RequestInit(method, path, headers, body) ==
    LET bodyJson == IF body # <<>> THEN Loads(JsonTokens(body)) ELSE Returned(Dict(<<>>)) IN
    IF bodyJson[1] = "raise" THEN bodyJson
    ELSE IF "bodyJson" \in {"method", "path", "headers", "body"}
    THEN Returned([method |-> method, path |-> path, headers |-> headers, body |-> body])
    ELSE Raised("AttributeError")

RECURSIVE Compile(_)
\* Server.on: re.sub(r"\[(\w+)\]", r"(?P<\1>[^/]+)", path), anchored: the
\* elements of the compiled pattern, a bracketed word becoming a group.  The
\* rest of the path is handed to re.compile as it is: a "." in it is the
\* regular expression for any one character.
Compile(pattern) ==
    IF pattern = <<>> THEN <<>>
    ELSE IF Len(pattern) >= 3 /\ pattern[1] = LBracket /\ pattern[2][1] = "w"
            /\ pattern[3] = RBracket
    THEN << <<"group", pattern[2][2]>> >> \o Compile(SubSeq(pattern, 4, Len(pattern)))
    ELSE IF pattern[1] = Dot
    THEN << <<"any">> >> \o Compile(Tail(pattern))
    ELSE <<pattern[1]>> \o Compile(Tail(pattern))

\* the atom is one character, and not a line break
OneChar(a) == a # Crlf /\ (a[1] = "w" => Len(a[2]) = 1)

RECURSIVE MatchAt(_, _, _, _)
\* regex.match(path): elements i.. of the pattern match atoms j.. of the path
MatchAt(regex, i, path, j) ==
    IF i > Len(regex) THEN j > Len(path)
    ELSE IF regex[i][1] = "group"
    THEN \E n \in 1..(Len(path) - j + 1) :
            /\ \A h \in j..(j + n - 1) : path[h] # Slash
            /\ MatchAt(regex, i + 1, path, j + n)
    ELSE IF regex[i] = <<"any">>
    THEN j <= Len(path) /\ OneChar(path[j]) /\ MatchAt(regex, i + 1, path, j + 1)
    ELSE j <= Len(path) /\ path[j] = regex[i] /\ MatchAt(regex, i + 1, path, j + 1)

Matches(regex, path) == MatchAt(regex, 1, path, 1)

\* Server.__handle_client: the first route, in registration order, whose
\* method equals and whose pattern matches; 0 when there is none
FirstMatch(method, path) ==
    LET hits == {i \in 1..Len(routes) :
                    routes[i].method = method /\ Matches(routes[i].regex, path)}
    IN IF hits = {} THEN 0 ELSE CHOOSE i \in hits : \A h \in hits : i <= h

\* Response.send(body, status_code, content_type): the bytes written
Sent(body, status_code, content_type) ==
    [status_line |-> <<"HTTP/1.1", status_code, "OK">>,
     content_type |-> content_type,
     content_length |-> Len(body),
     body |-> body]

MaxRoutes == 2

RoutePatterns == {<<Slash, W("a")>>,
                  <<Slash, W("items"), Slash, LBracket, W("id"), RBracket>>,
                  <<Slash, W("a"), Dot, W("b")>>}
RouteMethods == {<<W("GET")>>, <<W("POST")>>}

RequestLines == {<<W("GET"), Sp, Slash, W("a"), Sp, W("HTTP/1.1")>>,
                 <<W("POST"), Sp, Slash, W("a"), Sp, W("HTTP/1.1")>>,
                 <<W("GET"), Sp, Slash, W("items"), Slash, W("42"), Sp, W("HTTP/1.1")>>,
                 <<W("GET"), Sp, Slash, W("b"), Sp, W("HTTP/1.1")>>,
                 <<W("GET"), Sp, Slash, W("a"), Dot, W("b"), Sp, W("HTTP/1.1")>>,
                 <<W("GET"), Sp, Slash, W("a"), Slash, W("b"), Sp, W("HTTP/1.1")>>,
                 <<W("GET"), Sp, Slash, W("a")>>}
HeaderBlocks == {<<>>,
                 << <<W("Host"), Colon, Sp, W("x")>> >>,
                 << <<W("junk")>>, <<W("Host"), Colon, Sp, W("x"), Colon, Sp, W("y")>> >>}
BodyBlocks == {<<>>,
               << <<LBrace, RBrace>> >>,
               << <<LBrace>>, <<Sp, RBrace>> >>,
               << <<W("hello")>> >>}

\* what a client may send: nothing, or a request line, header lines, a blank
\* line and the lines of a body; or a text without a blank line, one that
\* starts with a blank line, one that repeats a header, one whose body holds
\* a blank line
Requests == {NoData} \cup
            {<<rl>> \o hb \o << <<>> >> \o bb :
                rl \in RequestLines, hb \in HeaderBlocks, bb \in BodyBlocks} \cup
            {<< <<W("GET"), Sp, Slash, W("a"), Sp, W("HTTP/1.1")>>,
                <<W("Host"), Colon, Sp, W("x")>> >>,
             << <<>>, <<W("Host"), Colon, Sp, W("x")>>, <<>>, <<W("hello")>> >>,
             << <<W("GET"), Sp, Slash, W("a"), Sp, W("HTTP/1.1")>>,
                <<W("Host"), Colon, Sp, W("x")>>, <<W("Host"), Colon, Sp, W("y")>>,
                <<>>, <<W("a")>>, <<>>, <<W("b")>> >>}

Terminal == {"closed", "handler", "aborted", "returned"}

\* a request line of two tokens passes for well-formed
TooFewOfTwo(parts) == Len(parts) < 2

\* Server.__handle_client: len(parts) < 3
TooFew(parts) == Len(parts) < 3

\* @server.on(path, method): registration, before the server listens
On ==
    /\ conn.pc = "none"
    /\ Len(routes) < MaxRoutes
    /\ \E m \in RouteMethods, p \in RoutePatterns :
        routes' = Append(routes, [method |-> m, regex |-> Compile(p),
                                  handler |-> Len(routes) + 1])
    /\ UNCHANGED <<dbvars, conn>>

\* a connection is accepted and its task started; data is what
\* reader.read(65536) will give
Accept ==
    /\ conn.pc \in {"none"} \cup Terminal
    /\ \E data \in Requests : conn' = [NoConn EXCEPT !.pc = "read", !.data = data]
    /\ UNCHANGED <<dbvars, routes>>

\* Server.__handle_client from the data read to the return, to the handler
\* it awaits or to the drain awaited by Response.send
HandleData ==
    /\ conn.pc = "read"
    /\ IF conn.data = NoData
       THEN conn' = [conn EXCEPT !.pc = "closed", !.closes = @ + 1]
       ELSE LET parsed == ParseRequest(conn.data)
                parts == SplitOn(parsed.request_line, Sp)
            IN  IF TooFew(parts)
                THEN conn' = [conn EXCEPT !.pc = "closed", !.closes = @ + 1,
                                          !.request_line = parsed.request_line,
                                          !.headers = parsed.headers, !.body = parsed.body]
                ELSE LET req == RequestInit(parts[1], parts[2], parsed.headers, parsed.body)
                         at == FirstMatch(parts[1], parts[2])
                         seen == [conn EXCEPT !.request_line = parsed.request_line,
                                              !.headers = parsed.headers,
                                              !.body = parsed.body,
                                              !.method = parts[1], !.path = parts[2],
                                              !.req = req]
                     IN  IF req[1] = "raise"
                         THEN conn' = [seen EXCEPT !.pc = "aborted"]
                         ELSE IF at # 0
                         THEN conn' = [seen EXCEPT !.pc = "handler",
                                                   !.handler = routes[at].handler]
                         ELSE conn' = [seen EXCEPT !.pc = "send_drain",
                                 !.call = [NoCall EXCEPT !.op = "send",
                                                         !.body = "404 Not Found",
                                                         !.status_code = 404,
                                                         !.content_type = "text/plain"],
                                 !.out = Append(@, Sent("404 Not Found", 404, "text/plain"))]
    /\ UNCHANGED <<dbvars, routes>>

InitServer == InitStore(0)

NextServer == On \/ Accept \/ HandleData

SpecServer == InitServer /\ [][NextServer]_vars

----------------------------------------------------------------------------
(* Response.  The owner of a Response on an open writer calls one of its   *)
(* methods; conn.call holds the call and the arguments of the send it      *)
(* runs, conn.result the exception on its way out of the method.  drain()  *)
(* fails when the peer is gone; reading the file fails on a directory and  *)
(* on a disk fault.                                                        *)

SendBodies == {"", "hi", "404 Not Found"}
StatusCodes == {200, 201, 404}
ContentTypes == {"text/plain", "text/html"}
SendFilePaths == {IndexFile(<<"u">>), <<"u">>, <<"missing">>, <<"u", "missing">>}

\* res.send(body, status_code, content_type)
CallSend ==
    /\ conn.pc = "handler"
    /\ \E b \in SendBodies, sc \in StatusCodes, ct \in ContentTypes :
        conn' = [conn EXCEPT !.pc = "send_write",
                             !.call = [NoCall EXCEPT !.op = "send", !.body = b,
                                                     !.status_code = sc,
                                                     !.content_type = ct]]
    /\ UNCHANGED <<dbvars, routes>>

\* res.sendFile(file_path, content_type)
CallSendFile ==
    /\ conn.pc = "handler"
    /\ \E p \in SendFilePaths, ct \in ContentTypes :
        conn' = [conn EXCEPT !.pc = "file_open",
                             !.call = [NoCall EXCEPT !.op = "sendFile", !.file_path = p,
                                                     !.content_type = ct]]
    /\ UNCHANGED <<dbvars, routes>>

\* res.sendJson(data): await self.send(json.dumps(data), content_type="application/json")
CallSendJson ==
    /\ conn.pc = "handler"
    /\ \E d \in Values :
        conn' = [conn EXCEPT !.pc = "send_write",
                             !.call = [NoCall EXCEPT !.op = "sendJson", !.data = d,
                                                     !.body = Dumps(d),
                                                     !.status_code = 200,
                                                     !.content_type = "application/json"]]
    /\ UNCHANGED <<dbvars, routes>>

\* Response.send: self.writer.write((response_line + headers + body).encode('utf-8'))
SendWrite ==
    /\ conn.pc = "send_write"
    /\ conn' = [conn EXCEPT !.pc = "send_drain",
                            !.out = Append(@, Sent(conn.call.body, conn.call.status_code,
                                                   conn.call.content_type))]
    /\ UNCHANGED <<dbvars, routes>>

\* where an exception raised in Response.send goes: to the finally of the
\* sendFile that called it, or out of the method
SendRaised(e) ==
    IF conn.call.op = "sendFile"
    THEN [conn EXCEPT !.pc = "file_finally", !.result = Raised(e)]
    ELSE [conn EXCEPT !.pc = "returned", !.result = Raised(e)]

\* Response.send: await self.writer.drain()
SendDrain ==
    /\ conn.pc = "send_drain"
    /\ \/ conn' = [conn EXCEPT !.pc = "send_close"]
       \/ conn' = SendRaised("ConnectionResetError")
    /\ UNCHANGED <<dbvars, routes>>

\* Response.send: self.writer.close(), and the return to the caller
SendClose ==
    /\ conn.pc = "send_close"
    /\ conn' = IF conn.call.op = "sendFile"
               THEN [conn EXCEPT !.pc = "file_finally", !.closes = @ + 1]
               ELSE [conn EXCEPT !.pc = "returned", !.closes = @ + 1,
                                 !.result = Returned(None)]
    /\ UNCHANGED <<dbvars, routes>>

\* Response.sendFile: with open(file_path, "rb") as f: content = f.read()
\* FileNotFoundError is caught and answered by send("File not found", 404)
FileOpen ==
    /\ conn.pc = "file_open"
    /\ \/ /\ CanOpenR(conn.call.file_path)
          /\ conn' = [conn EXCEPT !.pc = "file_write"]
       \/ /\ CanOpenR(conn.call.file_path)
          /\ conn' = [conn EXCEPT !.pc = "file_finally", !.result = Raised("OSError")]
       \/ /\ Exists(conn.call.file_path) /\ ~CanOpenR(conn.call.file_path)
          /\ conn' = [conn EXCEPT !.pc = "file_finally",
                                  !.result = Raised("IsADirectoryError")]
       \/ /\ ~Exists(conn.call.file_path)
          /\ conn' = [conn EXCEPT !.pc = "send_write",
                                  !.call = [@ EXCEPT !.body = "File not found",
                                                     !.status_code = 404,
                                                     !.content_type = "text/plain"]]
    /\ UNCHANGED <<dbvars, routes>>

\* Response.sendFile: the three writes of the status line, the headers and the content
FileWrite ==
    /\ conn.pc = "file_write"
    /\ LET content == files[Resolve(conn.call.file_path).at] IN
       conn' = [conn EXCEPT !.pc = "file_drain",
                            !.out = @ \o << <<"HTTP/1.1", 200, "OK">>,
                                            [content_type |-> conn.call.content_type,
                                             content_length |-> Len(content)],
                                            content >>]
    /\ UNCHANGED <<dbvars, routes>>

\* Response.sendFile: await self.writer.drain()
FileDrain ==
    /\ conn.pc = "file_drain"
    /\ \/ conn' = [conn EXCEPT !.pc = "file_finally"]
       \/ conn' = [conn EXCEPT !.pc = "file_finally",
                               !.result = Raised("ConnectionResetError")]
    /\ UNCHANGED <<dbvars, routes>>

\* a sendFile that closes the writer as the last statement of the try body
FileFinallyOnSuccess ==
    /\ conn.pc = "file_finally"
    /\ conn' = IF conn.result = Pending
               THEN [conn EXCEPT !.pc = "returned", !.closes = @ + 1,
                                 !.result = Returned(None)]
               ELSE [conn EXCEPT !.pc = "returned"]
    /\ UNCHANGED <<dbvars, routes>>

\* Response.sendFile: finally: self.writer.close(), then the return or the
\* exception that was on its way
FileFinally ==
    /\ conn.pc = "file_finally"
    /\ conn' = [conn EXCEPT !.pc = "returned", !.closes = @ + 1,
                            !.result = IF @ = Pending THEN Returned(None) ELSE @]
    /\ UNCHANGED <<dbvars, routes>>

\* a Response on the writer of a connection, in the hands of its owner
InitResponse ==
    /\ \E pre \in InitialDirs :
        /\ dirs = pre
        /\ files = LoadFiles(pre, <<>>)
        /\ tables = LoadTables(pre, <<>>)
    /\ lock = 0
    /\ pc = [th \in Threads |-> "idle"]
    /\ loc = [th \in Threads |-> NoLoc]
    /\ ret = [th \in Threads |-> Pending]
    /\ budget = 0
    /\ removals = 0
    /\ restarts = 0
    /\ routes = <<>>
    /\ conn = [NoConn EXCEPT !.pc = "handler"]

NextResponse ==
    \/ CallSend
    \/ CallSendFile
    \/ CallSendJson
    \/ SendWrite
    \/ SendDrain
    \/ SendClose
    \/ FileOpen
    \/ FileWrite
    \/ FileDrain
    \/ FileFinally

SpecResponse == InitResponse /\ [][NextResponse]_vars

----------------------------------------------------------------------------
(* What the store would answer in the current state.                       *)

\* the result of Database.get(table, key) run to completion from this state
GetResult(table, key) ==
    IF ~Known(table) THEN Returned(None)
    ELSE LET file_path == Lookup(table, key) IN
         IF ~Truthy(file_path) \/ ~Exists(file_path[2]) THEN Returned(None)
         ELSE Loads(files[Resolve(file_path[2]).at])

\* the content of <root>/<table>/index.json is the in-memory index of table
IndexOnDisk(table) ==
    /\ IsFile(IndexFile(table))
    /\ Loads(files[IndexFile(table)]) = Returned(tables[table])

\* thread th is about to return from a set or delete that succeeded
Returning(th, op) ==
    pc[th] = "release" /\ loc[th].op = op /\ ret[th] = Returned(None)

----------------------------------------------------------------------------
(* Claims about the table store.                                           *)

\* C1: whenever a set or a delete returns successfully, index.json of its
\* table equals the in-memory index of that table.
C1_IndexConsistency ==
    \A th \in Threads :
        (Returning(th, "set") \/ Returning(th, "delete")) /\ Known(loc[th].table)
            => IndexOnDisk(loc[th].table)

\* C2: when set(table, key, value) returns, get(table, key) returns value.
C2_RoundTrip ==
    \A th \in Threads :
        Returning(th, "set") => GetResult(loc[th].table, loc[th].key) = Returned(loc[th].value)

\* C5: when delete(table, key) returns, get(table, key) returns None, key is
\* not among all_keys(table), and <root>/<table>/keys/<key>.json does not exist.
C5_DeleteRemoves ==
    \A th \in Threads :
        Returning(th, "delete") =>
            /\ GetResult(loc[th].table, loc[th].key) = Returned(None)
            /\ \A i \in 1..Len(AllKeysOf(loc[th].table)[2]) :
                   AllKeysOf(loc[th].table)[2][i] # Str(loc[th].key)
            /\ ~Exists(FilePath(loc[th].table, loc[th].key))


\* no call has been made on the store since it was constructed
JustConstructed == \A th \in Threads : pc[th] = "idle"

\* the index persisted in index.json of table, decoded
Persisted(table) == Loads(files[IndexFile(table)])[2]

\* C4: a Database just constructed on a root has, for every table directory
\* of the root, exactly the index that the table's index.json holds; all_keys
\* lists the keys of that persisted index, in its order, and get returns the
\* value in the file the persisted index names (None when that file is gone).
C4_ReloadFaithful ==
    JustConstructed =>
        /\ DOMAIN tables = TableDirs(dirs)
        /\ \A t \in TableDirs(dirs) :
            /\ IsFile(IndexFile(t))
            /\ tables[t] = Persisted(t)
            /\ AllKeysOf(t) = List([i \in 1..Len(Persisted(t)[2]) |-> Str(Persisted(t)[2][i][1])])
            /\ \A k \in Keys :
                DictHas(Persisted(t)[2], k) =>
                    GetResult(t, k) =
                        IF Exists(DictGet(Persisted(t)[2], k)[2])
                        THEN Loads(files[Resolve(DictGet(Persisted(t)[2], k)[2]).at])
                        ELSE Returned(None)

\* C4 witness: a store freshly constructed on a root whose index names a key
C4_Witness ==
    /\ restarts < MaxRestarts
    /\ \A th \in Threads : pc[th] = "idle"
    /\ \E t \in DOMAIN tables : Len(tables[t][2]) > 0 /\ IndexOnDisk(t)

\* C6: a delete of a key that is not in the index of its table (or of an
\* unknown table) changes neither the disk (no file or directory created,
\* removed or rewritten: index.json is not even opened) nor the in-memory index.
C6_DeleteAbsentIsNoOp ==
    [][\A th \in Threads :
        /\ loc[th].op = "delete"
        /\ pc[th] \in {"del_pop", "del_exists", "del_remove", "save_open", "save_dump"}
        /\ pc'[th] # pc[th]
        /\ IF pc[th] = "del_pop"
           THEN ~Known(loc[th].table) \/ Lookup(loc[th].table, loc[th].key) = None
           ELSE loc[th].file_path = None
        => UNCHANGED <<dirs, files, tables>>
    ]_vars

\* C6 witness: a delete of a key absent from a non-empty index is returning
C6_Witness ==
    \E th \in Threads :
        /\ Returning(th, "delete")
        /\ loc[th].file_path = None
        /\ Known(loc[th].table)
        /\ Len(tables[loc[th].table][2]) > 0
        /\ IndexOnDisk(loc[th].table)

\* C6 witness for the unknown table
C6_WitnessUnknownTable ==
    \E th \in Threads : Returning(th, "delete") /\ ~Known(loc[th].table)

\* the index of table has key, and the file it names exists
Present(table, key) ==
    /\ Known(table)
    /\ DictHas(tables[table][2], key)
    /\ Exists(DictGet(tables[table][2], key)[2])

\* C7: get never raises; it returns the JSON-decoded content of the file the
\* index names when the table is known, the key indexed and the file there,
\* and None for an unknown table, an unknown key or a dangling entry.
C7_GetAbsence ==
    \A th \in Threads :
        pc[th] = "release" /\ loc[th].op = "get" =>
            /\ ret[th][1] = "return"
            /\ IF Present(loc[th].table, loc[th].key)
               THEN ret[th] = Loads(files[Resolve(
                        DictGet(tables[loc[th].table][2], loc[th].key)[2]).at])
               ELSE ret[th] = Returned(None)

\* C7 witness: a get of an indexed key whose file was removed out-of-band returns None
C7_Witness ==
    \E th \in Threads :
        /\ pc[th] = "release" /\ loc[th].op = "get"
        /\ Known(loc[th].table)
        /\ DictHas(tables[loc[th].table][2], loc[th].key)
        /\ ~Exists(DictGet(tables[loc[th].table][2], loc[th].key)[2])
        /\ ret[th] = Returned(None)

\* C7 witness: a get of a present key returns a stored, non-None value
C7_WitnessPresent ==
    \E th \in Threads :
        /\ pc[th] = "release" /\ loc[th].op = "get"
        /\ Present(loc[th].table, loc[th].key)
        /\ ret[th] \in {Returned(v) : v \in Values}


\* the positions inside the critical section
Critical == {"set_makedirs", "set_open", "set_dump", "set_index", "save_open", "save_dump",
             "get_lookup", "get_load", "del_pop", "del_exists", "del_remove", "release"}

\* C3: after set(table, "k", v1) and set(table, "k", v2) issued at the same
\* time: when the call that acquired the lock last returns, get(table, "k")
\* returns its value, the value file holds exactly the text of that value,
\* the index maps "k" to that file and index.json equals the in-memory
\* index; once both have returned, get returns v1 or v2.
C3_ConcurrentSet ==
    \A th \in Threads : \A o \in Threads \ {th} :
        /\ loc[th].op = "set" /\ loc[o].op = "set"
        /\ loc[th].table = loc[o].table
        /\ loc[th].key = RaceKey /\ loc[o].key = RaceKey
        /\ pc[o] = "done"
        /\ pc[th] \in {"release", "done"}
        => /\ pc[th] = "release" => GetResult(loc[th].table, RaceKey) = Returned(loc[th].value)
           /\ GetResult(loc[th].table, RaceKey) \in {Returned(loc[th].value), Returned(loc[o].value)}
           /\ IsFile(FilePath(loc[th].table, RaceKey))
           /\ files[FilePath(loc[th].table, RaceKey)] \in {Dumps(loc[th].value), Dumps(loc[o].value)}
           /\ files[FilePath(loc[th].table, RaceKey)]
                  = Dumps(GetResult(loc[th].table, RaceKey)[2])
           /\ Lookup(loc[th].table, RaceKey) = Str(FilePath(loc[th].table, RaceKey))
           /\ IndexOnDisk(loc[th].table)

\* C3 witness: both concurrent sets of "k" returned, with different values
C3_Witness ==
    /\ pc[1] = "done" /\ pc[2] = "done"
    /\ loc[1].op = "set" /\ loc[2].op = "set"
    /\ loc[1].table = loc[2].table
    /\ loc[1].key = RaceKey /\ loc[2].key = RaceKey
    /\ loc[1].value # loc[2].value
    /\ GetResult(loc[1].table, RaceKey) = Returned(loc[1].value)

\* C8: at most one thread is inside a critical section, it is the holder of
\* the lock, and a get that is about to read a value file finds one complete
\* JSON text in it, never the empty or partial file of a set in progress.
C8_GetNeverReadsPartial ==
    /\ \A th \in Threads : pc[th] \in Critical => lock = th
    /\ \A g \in Threads :
        pc[g] = "get_load" =>
            /\ CanOpenR(loc[g].file_path[2])
            /\ Loads(files[Resolve(loc[g].file_path[2]).at])[1] = "return"
    /\ \A g \in Threads :
        loc[g].op = "get" /\ pc[g] \in {"release", "done"} => ret[g][1] = "return"

\* C8 witness: a get reads the file of an indexed key while a set that will
\* overwrite that key waits for the lock
C8_Witness ==
    \E g \in Threads : \E o \in Threads \ {g} :
        /\ pc[g] = "get_load"
        /\ pc[o] = "acquire" /\ loc[o].op = "set"
        /\ loc[o].table = loc[g].table /\ loc[o].key = loc[g].key
        /\ Present(loc[g].table, loc[g].key)

\* C9: an operation that fails with a disk fault gives the fault to its
\* caller at once (no statement is retried), the thread that got it does not
\* keep the lock, and every thread waiting for the lock gets to run its
\* operation to its return.
C9_LockReleasedOnFault ==
    /\ [][\A th \in Threads :
            ret[th] # Raised("OSError") /\ ret'[th] = Raised("OSError")
                => pc[th] \in FaultPoints /\ pc'[th] = "release"]_vars
    /\ [](\A th \in Threads : pc[th] = "done" /\ ret[th][1] = "raise" => lock # th)
    /\ \A th \in Threads : (pc[th] = "acquire") ~> (pc[th] = "done")

\* C9 witness: after a call failed with a disk fault, the other thread is
\* inside its critical section
C9_Witness ==
    \E th \in Threads : \E o \in Threads \ {th} :
        /\ pc[th] = "done" /\ ret[th] = Raised("OSError")
        /\ lock = o /\ pc[o] \in Critical


----------------------------------------------------------------------------
(* Claims about the connection handler.                                    *)

\* the request of the connection has at least 3 tokens on its request line
WellFormed == conn.data # NoData /\ Len(SplitOn(conn.data[1], Sp)) >= 3

\* no registered route has the method and a pattern matching the path
NoRoute(method, path) ==
    \A i \in 1..Len(routes) : routes[i].method # method \/ ~Matches(routes[i].regex, path)

\* C10: once the handler is through with a request of at least 3 tokens that
\* no registered route matches, it has written exactly a 404 response with
\* body "404 Not Found" and has closed the connection once.
C10_UnmatchedGets404 ==
    /\ conn.pc \in Terminal
    /\ WellFormed
    /\ NoRoute(SplitOn(conn.data[1], Sp)[1], SplitOn(conn.data[1], Sp)[2])
    => /\ conn.out = <<Sent("404 Not Found", 404, "text/plain")>>
       /\ conn.closes = 1

----------------------------------------------------------------------------
(* The connection handler on an empty read and on a short request line.    *)

\* the read gave no data, or a first line of fewer than 3 space-separated tokens
Dropped(data) == data = NoData \/ Len(SplitOn(data[1], Sp)) < 3

\* C11: once the handler has acted on an empty read or on a request line of
\* fewer than 3 tokens, the connection is closed (once), nothing was written,
\* no route handler was selected, no Request was built and no error came out.
C11_SilentClose ==
    (conn.pc \notin {"none", "read"} /\ Dropped(conn.data)) =>
        /\ conn.pc = "closed"
        /\ conn.closes = 1
        /\ conn.out = <<>>
        /\ conn.handler = 0
        /\ conn.req = <<"none">>

\* a request line of two tokens was read, routes being registered, and dropped
C11_Witness ==
    /\ conn.pc = "closed"
    /\ conn.data # NoData
    /\ Len(SplitOn(conn.data[1], Sp)) = 2
    /\ Len(routes) > 0

\* the read gave nothing and the connection was closed
C11_WitnessEmptyRead == conn.pc = "closed" /\ conn.data = NoData

----------------------------------------------------------------------------
(* Response: what a call leaves on the writer.                             *)

\* C12: when sendFile has returned for a path that does not exist, exactly a
\* 404 response with body "File not found" was written and close() was
\* called on the writer exactly once.
C12_SendFileMissing ==
    (/\ conn.pc = "returned"
     /\ conn.call.op = "sendFile"
     /\ ~Exists(conn.call.file_path)
     /\ conn.result = Returned(None))
    => /\ conn.out = <<Sent("File not found", 404, "text/plain")>>
       /\ conn.closes = 1

\* C16: when send, sendFile or sendJson has returned normally the writer has
\* been closed, and when sendFile has ended in any way (file served, file
\* missing, reading or draining failed) the writer has been closed.
C16_Terminal ==
    conn.pc = "returned" =>
        /\ conn.result = Returned(None) => conn.closes >= 1
        /\ conn.call.op = "sendFile" => conn.closes >= 1

\* sendFile ended with an exception from the read of a directory
C16_Witness ==
    /\ conn.pc = "returned"
    /\ conn.call.op = "sendFile"
    /\ conn.result = Raised("IsADirectoryError")
    /\ conn.closes = 1

\* sendJson returned normally
C16_WitnessJson ==
    conn.pc = "returned" /\ conn.call.op = "sendJson" /\ conn.result = Returned(None)

----------------------------------------------------------------------------
(* Routing.                                                                *)

ReqMethod == SplitOn(conn.data[1], Sp)[1]
ReqPath == SplitOn(conn.data[1], Sp)[2]

\* route i has exactly the method of the request and its pattern matches the whole path
Hit(i) == routes[i].method = ReqMethod /\ Matches(routes[i].regex, ReqPath)

\* C13: once the connection handler is through with a request of at least 3
\* tokens, the handler invoked is that of the first route, in registration
\* order, whose method equals the request method and whose pattern matches
\* the whole path.
C13_FirstRouteWins ==
    (conn.pc \in Terminal /\ WellFormed) =>
        \A i \in 1..Len(routes) :
            (Hit(i) /\ \A j \in 1..(i - 1) : ~Hit(j)) =>
                conn.pc = "handler" /\ conn.handler = routes[i].handler

\* C15: once the connection handler has acted on what it read, it has taken
\* exactly one of three paths: the silent close, the invocation of one route
\* handler with nothing written by the core, or the 404 response with no
\* handler invoked.
C15_OneOfThreePaths ==
    conn.pc \notin {"none", "read"} =>
        \/ conn.pc = "closed" /\ conn.out = <<>> /\ conn.handler = 0
        \/ conn.pc = "handler" /\ conn.out = <<>> /\ conn.handler \in 1..Len(routes)
        \/ /\ conn.pc \in {"send_drain", "send_close", "returned"}
           /\ conn.out = <<Sent("404 Not Found", 404, "text/plain")>>
           /\ conn.handler = 0

----------------------------------------------------------------------------
(* Patterns.                                                               *)

RECURSIVE Fills(_, _, _, _)
\* atoms j.. of the path are atoms i.. of the pattern with every bracketed
\* word replaced by a non-empty text without "/", all the rest being equal
Fills(pattern, i, path, j) ==
    IF i > Len(pattern) THEN j > Len(path)
    ELSE IF i + 2 <= Len(pattern) /\ pattern[i] = LBracket /\ pattern[i + 1][1] = "w"
            /\ pattern[i + 2] = RBracket
    THEN \E n \in 1..(Len(path) - j + 1) :
            /\ \A h \in j..(j + n - 1) : path[h] # Slash
            /\ Fills(pattern, i + 3, path, j + n)
    ELSE j <= Len(path) /\ path[j] = pattern[i] /\ Fills(pattern, i + 1, path, j + 1)

\* C14: for every registered route and the path of the request at hand, the
\* compiled pattern matches the path exactly when the path is the registered
\* pattern with its bracketed segments filled in, everything else literal.
C14_PatternSemantics ==
    (conn.pc \in Terminal /\ WellFormed) =>
        \A i \in 1..Len(routes), p \in RoutePatterns :
            routes[i].regex = Compile(p) =>
                (Matches(routes[i].regex, ReqPath) <=> Fills(p, 1, ReqPath, 1))

----------------------------------------------------------------------------
(* The wire codec.                                                         *)

\* the first empty line after the request line; past the end when there is none
FirstBlank(lines) ==
    IF \E i \in 2..Len(lines) : lines[i] = <<>>
    THEN CHOOSE i \in 2..Len(lines) :
            lines[i] = <<>> /\ \A h \in 2..(i - 1) : lines[h] # <<>>
    ELSE Len(lines) + 1

\* line holds ": " and key, value are what stands before and after the first one
SplitsInto(line, key, value) ==
    \E c \in 1..(Len(line) - 1) :
        /\ line[c] = Colon /\ line[c + 1] = Sp
        /\ \A h \in 1..(c - 1) : ~(line[h] = Colon /\ line[h + 1] = Sp)
        /\ key = SubSeq(line, 1, c - 1)
        /\ value = SubSeq(line, c + 2, Len(line))

\* C17: the request line is the first CRLF line of the text read; the headers
\* map each key found before the first ": " of a line between the request
\* line and the first empty line to what follows that ": " (the last such
\* line of a key counting), lines without ": " leaving no trace; the body,
\* split on CRLF, is the lines after that empty line, and is empty when
\* there is none.
C17_WireCodec ==
    (conn.pc \notin {"none", "read"} /\ conn.data # NoData) =>
        LET lines == conn.data
            e == FirstBlank(lines)
        IN  /\ conn.request_line = lines[1]
            /\ \A n \in 1..Len(conn.headers) :
                 \E i \in 2..(e - 1) :
                    /\ SplitsInto(lines[i], conn.headers[n][1], conn.headers[n][2])
                    /\ \A j \in (i + 1)..(e - 1) :
                         \A v \in {SubSeq(lines[j], c, Len(lines[j])) : c \in 1..(Len(lines[j]) + 1)} :
                            ~SplitsInto(lines[j], conn.headers[n][1], v)
            /\ \A i \in 2..(e - 1) :
                 HasColonSp(lines[i]) =>
                    \E n \in 1..Len(conn.headers) :
                        \E v \in {SubSeq(lines[i], c, Len(lines[i])) : c \in 1..(Len(lines[i]) + 1)} :
                            SplitsInto(lines[i], conn.headers[n][1], v)
            /\ \A n, o \in 1..Len(conn.headers) :
                 conn.headers[n][1] = conn.headers[o][1] => n = o
            /\ IF e >= Len(lines) THEN conn.body = <<>>
               ELSE SplitOn(conn.body, Crlf) = SubSeq(lines, e + 1, Len(lines))

\* a request with a junk line, a header holding ": " twice and a body of two lines was read
C17_Witness ==
    /\ conn.pc \notin {"none", "read"}
    /\ Len(conn.data) >= 6
    /\ conn.headers = << <<<<W("Host")>>, <<W("x"), Colon, Sp, W("y")>>>> >>
    /\ Len(SplitOn(conn.body, Crlf)) = 2

\* a text without an empty line was read: headers to the end, no body
C17_WitnessNoBlank ==
    /\ conn.pc \notin {"none", "read"}
    /\ conn.data # NoData
    /\ FirstBlank(conn.data) = Len(conn.data) + 1
    /\ Len(conn.headers) = 1

----------------------------------------------------------------------------
(* Restart.                                                                *)

\* C18: the store constructed on the same root by a restart returns for
\* every table the all_keys the old store returned just before; a key that
\* delete took out of the index is not back.
C18_RestartTransparent ==
    [][Restart => \A t \in Tables : AllKeysOf(t)' = AllKeysOf(t)]_vars

----------------------------------------------------------------------------
(* One caller at a time, each call remembering what the store held for     *)
(* every pair when it was made.                                            *)

MaxFrameOps == 2

\* what the store holds for (table, key): the answer of get, the index entry
\* and the content of the file the entry names
Observed(table, key) ==
    LET entry == IF Known(table) THEN Lookup(table, key) ELSE None
        there == Truthy(entry) /\ CanOpenR(entry[2])
    IN [get |-> GetResult(table, key),
        entry |-> entry,
        there |-> there,
        text |-> IF there THEN files[Resolve(entry[2]).at] ELSE <<>>]

\* set, get or delete is called while no other call is in progress
CallObserved(th) ==
    /\ Free(th)
    /\ \A o \in Threads : Resting(o)
    /\ budget > 0
    /\ budget' = budget - 1
    /\ pc' = [pc EXCEPT ![th] = "acquire"]
    /\ \E op \in {"set", "get", "delete"}, t \in Tables, k \in Keys, v \in Values :
        loc' = [loc EXCEPT ![th] =
                   [op |-> op, table |-> t, key |-> k,
                    value |-> IF op = "set" THEN v ELSE None, file_path |-> None,
                    before |-> [tk \in Tables \X Keys |-> Observed(tk[1], tk[2])]]]
    /\ ret' = [ret EXCEPT ![th] = Pending]
    /\ UNCHANGED <<dirs, files, tables, lock, removals, restarts, srv>>

InitFrame == InitStore(MaxFrameOps)

NextFrame ==
    \/ \E th \in Threads : CallObserved(th)
    \/ \E th \in Threads : Step(th)

SpecFrame == InitFrame /\ [][NextFrame]_vars

\* C19: when set or delete of (table, key) returns, every other pair has the
\* answer of get, the index entry and the value file it had when the call
\* was made.
C19_KeyIsolation ==
    \A th \in Threads :
        (pc[th] = "release" /\ loc[th].op \in {"set", "delete"}) =>
            \A tk \in Tables \X Keys :
                tk # <<loc[th].table, loc[th].key>> =>
                    Observed(tk[1], tk[2]) = loc[th].before[tk]

----------------------------------------------------------------------------
(* all_keys against set and delete in progress: the clients call set, get, *)
(* delete and all_keys, all_keys at any moment; nothing else touches the   *)
(* disk and the store is not restarted.                                    *)

MaxKeysOps == 3

InitKeys ==
    /\ \E pre \in InitialDirs :
        /\ dirs = pre
        /\ files = LoadFiles(pre, <<>>)
        /\ tables = LoadTables(pre, <<>>)
    /\ lock = 0
    /\ pc = [th \in Threads |-> "idle"]
    /\ loc = [th \in Threads |-> NoLoc]
    /\ ret = [th \in Threads |-> Pending]
    /\ budget = MaxKeysOps
    /\ removals = 0
    /\ restarts = 0
    /\ routes = <<>>
    /\ conn = NoConn

NextKeys ==
    \/ \E th \in Threads : CallSet(th)
    \/ \E th \in Threads : CallGet(th)
    \/ \E th \in Threads : CallDelete(th)
    \/ \E th \in Threads : AllKeys(th)
    \/ \E th \in Threads : Step(th)

SpecKeys == InitKeys /\ [][NextKeys]_vars

\* all_keys(table) would return key now
InIndex(table, key) == Known(table) /\ DictHas(tables[table][2], key)

\* C20: a key becomes visible to all_keys only in a step before which its
\* value file is on disk and holds a complete document, and a value file is
\* removed only in a step before which its key is no longer visible to
\* all_keys; all_keys itself returns the keys of the in-memory index as they
\* are at the moment it runs.
C20_AllKeysRace ==
    [][/\ \A t \in Tables, k \in Keys :
            /\ (~InIndex(t, k) /\ InIndex(t, k)') =>
                    /\ CanOpenR(FilePath(t, k))
                    /\ Loads(files[Resolve(FilePath(t, k)).at])[1] = "return"
            /\ (/\ CanOpenR(FilePath(t, k))
                /\ Resolve(FilePath(t, k)).at \notin DOMAIN files') => ~InIndex(t, k)
       /\ \A th \in Threads :
            AllKeys(th) => ret'[th] = Returned(AllKeysOf(loc'[th].table))]_vars

\* all_keys has returned a key while the set that indexed it has not yet
\* persisted it: index.json does not hold the key
C20_Witness ==
    \E th, o \in Threads :
        /\ loc[th].op = "all_keys" /\ pc[th] = "done"
        /\ loc[o].op = "set" /\ pc[o] \in {"save_open", "save_dump"}
        /\ loc[o].table = loc[th].table
        /\ loc[o].key = <<"k">>
        /\ ret[th] = Returned(List(<<Str(<<"k">>)>>))
        /\ ~IndexOnDisk(loc[th].table)

\* all_keys has returned no key while a delete has popped the key and is
\* about to remove its value file
C20_WitnessDelete ==
    \E th, o \in Threads :
        /\ loc[th].op = "all_keys" /\ pc[th] = "done"
        /\ loc[o].op = "delete" /\ pc[o] = "del_remove"
        /\ loc[o].table = loc[th].table
        /\ ret[th] = Returned(List(<<>>))

====
